---- MODULE Spec2Model ----
(***************************************************************************)
(* A model of the two notebook-style scripts of the repository:            *)
(*                                                                         *)
(*   "modernbert"  src/unnamed/part_000  (DoRA fine-tuning of ModernBERT   *)
(*                 on Jacobvs/PoliticalTweets)                             *)
(*   "hints"       src/LightweightFineTuning-Abhishek.ipynb  (the          *)
(*                 DistilBERT / sms_spam hints notebook)                   *)
(*                                                                         *)
(* A run executes the code cells of one script top to bottom.  Each code   *)
(* cell is one action; the statements of a cell take effect in order up to *)
(* the first one that raises.  The names a cell binds live in the kernel   *)
(* namespace ns.  A run either stops at the first uncaught exception       *)
(* (a script run, or "Run All") or goes on with the next cell (cells run   *)
(* one at a time in the same kernel, as the recorded execution counts of   *)
(* the hints notebook show was done).                                      *)
(*                                                                         *)
(* The installation, import and constant-definition cells bind library     *)
(* names and string constants only; they are taken as executed.            *)
(*                                                                         *)
(* Spec is a run of one script.  SpecMetrics applies the compute_metrics   *)
(* functions to any predictions.  SpecTrain follows trainer.train() pass   *)
(* by pass for the Trainer the ModernBERT script builds (SpecTrainFair     *)
(* with the loop running on until it returns), SpecCompared two such runs  *)
(* that differ in the records of the test split only.                      *)
(***************************************************************************)
EXTENDS Integers, Sequences, FiniteSets, TLC

\* ------------------------------------------------------------------ bounds

\* Largest number of records of a hosted dataset.
MaxRecords == 3

\* Largest number of examples handed to compute_metrics.
MaxExamples == 2

\* Logit values range over 0..MaxLogit.
MaxLogit == 1

\* An eval_loss ranges over 0..MaxLoss, counted in halves of the early
\* stopping threshold.
MaxLoss == 3

\* ------------------------------------------------------- program constants

\* max_length=128 of tokenize_function.
MaxLength == 128

\* model_max_length of the distilbert-base-uncased tokenizer, the limit that
\* truncation=True without max_length truncates to.
ModelMaxLength == 512

\* num_labels=2 of both from_pretrained calls.
NumLabels == 2

\* per_device_train_batch_size=32, num_train_epochs=8, eval_steps=50 and
\* save_steps=50 of the ModernBERT script's TrainingArguments.
TrainBatchSize == 32

NumTrainEpochs == 8

EvalSteps == 50

SaveSteps == 50

\* early_stopping_patience=3 of the EarlyStoppingCallback.
EarlyStoppingPatience == 3

\* early_stopping_threshold=0.001, in the unit of the losses (0.0005).
EarlyStoppingThreshold == 2

Scripts == {"modernbert", "hints"}

NoExc == "none"

\* ------------------------------------------------------------ small helpers

Max(a, b) == IF a >= b THEN a ELSE b

Min(a, b) == IF a <= b THEN a ELSE b

Range(s) == {s[i] : i \in 1..Len(s)}

\* s[:n] of Python
Take(s, n) == SubSeq(s, 1, Min(n, Len(s)))

\* The first position of x in s, 0 when absent.
Pos(s, x) == IF x \in Range(s) THEN CHOOSE i \in 1..Len(s) : s[i] = x /\ \A j \in 1..(i - 1) : s[j] # x ELSE 0

\* ----------------------------------------------------------------- values

\* A name that no executed statement has bound.
Unbound == [kind |-> "unbound"]

\* Python's None.
None == [kind |-> "None"]

\* A function object bound by a def statement.
Def(name) == [kind |-> "function", name |-> name]

\* ----------------------------------------------------------------- texts

\* Word counts of the texts of the datasets: a short text, one that exceeds
\* MaxLength once the special tokens are added, and one that exceeds
\* ModelMaxLength.
TextLens == {1, MaxLength - 1, ModelMaxLength - 1}

\* A text of n words; a word is a small positive integer.
Words(n) == [i \in 1..n |-> 1 + (i % 2)]

Texts == {Words(n) : n \in TextLens}

\* ------------------------------------------------------------- tokenizer

\* Ids of the tokens the tokenizer adds around every sequence.
SpecialTokens == [cls |-> 0, sep |-> 1]

\* The id of word w: past the special tokens.
TokenId(w) == w + 2

TruncateNever(words, room) == words

\* truncation=True: the words that fit beside the two special tokens.
Truncate(words, room) == Take(words, Max(room, 0))

\* tokenizer(text, truncation=True, max_length=limit): no padding argument,
\* so the sequence is stored at its own length.
Tokenizer(text, limit) ==
  LET kept == Truncate(text, limit - 2)
      ids == <<SpecialTokens.cls>> \o [i \in 1..Len(kept) |-> TokenId(kept[i])] \o <<SpecialTokens.sep>>
  IN [input_ids |-> ids, attention_mask |-> [i \in 1..Len(ids) |-> 1]]

\* tokenize_function of the ModernBERT script, on one text.
tokenize_function(text) == Tokenizer(text, MaxLength)

\* lambda x: tokenizer(x["sms"], truncation=True) of the hints notebook.
hints_tokenize(text) == Tokenizer(text, ModelMaxLength)

\* ---------------------------------------------------------------- datasets

\* The columns of sms_spam, as the notebook's recorded output lists them.
SmsSpamColumns == {"sms", "label"}

\* The columns of Jacobvs/PoliticalTweets, as the script names them.
PoliticalTweetsColumns == {"index", "date", "id", "username", "text", "party"}

\* remove_columns of split_dataset.map: a list of ONE string.
RemoveColumns == {"index, date, id, username, text, party"}

\* The two parties, as id2label names them.
Parties == {"Republican", "Democrat"}

SmsRecords == {[sms |-> t, label |-> l] : t \in Texts, l \in 0..(NumLabels - 1)}

TweetRecords == {[index |-> 0, date |-> 0, id |-> 0, username |-> 0, text |-> t, party |-> p] : t \in Texts, p \in Parties}

SeqsUpTo(S, n) == UNION {[1..k -> S] : k \in 1..n}

HostedRecords(script) == IF script = "hints" THEN SmsRecords ELSE TweetRecords

\* What load_dataset can return: the hosted dataset's "train" split, of at
\* least two rows.
HostedDatasets(script) == {d \in SeqsUpTo(HostedRecords(script), MaxRecords) : Len(d) >= 2}

\* ceil(0.2 * n): the size of the test split for test_size=0.2.
TestSize(n) == (2 * n + 9) \div 10

SplitOverlapping(rows, test) ==
  [kind |-> "DatasetDict", train |-> rows, test |-> SubSeq(rows, 1, Cardinality(test))]

\* train_test_split(test_size=0.2, seed=...): the rows at the positions
\* `test` (chosen by the seeded shuffle) form the test split, the others the
\* train split.
Split(rows, test) ==
  LET Pick(keep) == LET F[k \in 0..Len(rows)] == IF k = 0 THEN <<>> ELSE IF keep[k] THEN Append(F[k - 1], rows[k]) ELSE F[k - 1]
                    IN F[Len(rows)]
  IN [kind |-> "DatasetDict",
      train |-> Pick([i \in 1..Len(rows) |-> i \notin test]),
      test |-> Pick([i \in 1..Len(rows) |-> i \in test])]

\* The test-position sets a seeded shuffle can produce for n rows.
TestChoices(n) == {T \in SUBSET (1..n) : Cardinality(T) = TestSize(n)}

\* train_test_split raises ValueError when a split would be empty.
SplitRaises(n) == TestSize(n) = 0 \/ n - TestSize(n) = 0

\* The function handed to Dataset.map, applied to one text.
Apply(mapped, text) == IF mapped = "tokenize_function" THEN tokenize_function(text) ELSE hints_tokenize(text)

\* Dataset.map over one split: every row gains the tokenizer's columns and
\* loses the removed ones.
MapSplit(rows, textColumn, mapped, removed) ==
  [i \in 1..Len(rows) |->
     LET out == Apply(mapped, rows[i][textColumn])
         keep == (DOMAIN rows[i]) \ removed
     IN [c \in keep \cup {"input_ids", "attention_mask"} |->
           IF c = "input_ids" THEN out.input_ids
           ELSE IF c = "attention_mask" THEN out.attention_mask
           ELSE rows[i][c]]]

\* Dataset.map checks remove_columns against the columns before any row is
\* processed.
MapRaises(columns, removed) == removed \ columns # {}

\* ----------------------------------------------------------------- metrics

\* A float, kept exact as a quotient of two integers.
Float(n, d) == [kind |-> "float", num |-> n, den |-> d]

FloatEq(a, b) == a.num * b.den = b.num * a.den

FloatAdd(a, b) == Float(a.num * b.den + b.num * a.den, a.den * b.den)

\* How many positions of the Boolean sequence s are TRUE.
CountTrue(s) ==
  LET F[k \in 0..Len(s)] == IF k = 0 THEN 0 ELSE F[k - 1] + (IF s[k] THEN 1 ELSE 0)
  IN F[Len(s)]

\* The sum of a sequence of floats.
FloatSum(s) ==
  LET F[k \in 0..Len(s)] == IF k = 0 THEN Float(0, 1) ELSE FloatAdd(F[k - 1], s[k])
  IN F[Len(s)]

\* ndarray.mean() of a sequence of floats.
FloatMean(s) == LET t == FloatSum(s) IN Float(t.num, t.den * Len(s))

ArgMaxLast(row) == CHOOSE c \in 0..(Len(row) - 1) : /\ \A j \in 1..Len(row) : row[j] <= row[c + 1]
                                                  /\ \A j \in (c + 2)..Len(row) : row[j] < row[c + 1]

\* np.argmax over one row of logits: the index (from 0) of the first
\* occurrence of the largest value.
ArgMax(row) == CHOOSE c \in 0..(Len(row) - 1) : /\ \A j \in 1..Len(row) : row[j] <= row[c + 1]
                                              /\ \A j \in 1..c : row[j] < row[c + 1]

\* np.argmax(predictions, axis=1)
ArgMaxRows(logits) == [i \in 1..Len(logits) |-> ArgMax(logits[i])]

\* (predictions == labels).mean()
Accuracy(predictions, labels) ==
  Float(CountTrue([i \in 1..Len(labels) |-> predictions[i] = labels[i]]), Len(labels))

\* A set of integers as the ascending sequence of its elements.
RECURSIVE Sorted(_)
Sorted(S) == IF S = {} THEN <<>> ELSE LET m == CHOOSE x \in S : \A y \in S : x <= y IN <<m>> \o Sorted(S \ {m})

AllLabels(labels, predictions) == Sorted(0..(NumLabels - 1))

\* sklearn's unique_labels(y_true, y_pred), used when labels=None: the
\* classes that occur in the labels or in the predictions.
PresentLabels(labels, predictions) == Sorted(Range(labels) \cup Range(predictions))

\* A quotient with zero_division=0.
Ratio(n, d) == IF d = 0 THEN Float(0, 1) ELSE Float(n, d)

\* precision_recall_fscore_support(labels, predictions, average="macro",
\* zero_division=0): per class the counts of the confusion matrix, the three
\* quotients, and their unweighted mean over the classes considered.
precision_recall_fscore_support(labels, predictions) ==
  LET classes == PresentLabels(labels, predictions)
      n == Len(labels)
      tp(c) == CountTrue([i \in 1..n |-> predictions[i] = c /\ labels[i] = c])
      pred_sum(c) == CountTrue([i \in 1..n |-> predictions[i] = c])
      true_sum(c) == CountTrue([i \in 1..n |-> labels[i] = c])
      per(q(_)) == FloatMean([k \in 1..Len(classes) |-> q(classes[k])])
      precision(c) == Ratio(tp(c), pred_sum(c))
      recall(c) == Ratio(tp(c), true_sum(c))
      f1(c) == Ratio(2 * tp(c), pred_sum(c) + true_sum(c))
  IN [precision |-> per(precision), recall |-> per(recall), f1 |-> per(f1)]

\* compute_metrics(p) of the ModernBERT script.
modernbert_compute_metrics(p) ==
  LET predictions == ArgMaxRows(p.predictions)
      labels == p.label_ids
      prf == precision_recall_fscore_support(labels, predictions)
      accuracy == Accuracy(predictions, labels)
  IN [accuracy |-> accuracy,
      macro_precision |-> prf.precision,
      macro_recall |-> prf.recall,
      macro_f1 |-> prf.f1]

\* compute_metrics(eval_pred) of the hints notebook, as the code cell has it:
\* predictions is rebound to None and the accuracy returned is None.
hints_compute_metrics(eval_pred) ==
  LET predictions == None
  IN [accuracy |-> None]

\* ---------------------------------------------------------------- the run

VARIABLES
  script,        \* which of the two scripts is run
  stopOnError,   \* TRUE: the run ends at the first uncaught exception
  pc,            \* position of the next code cell
  halted,        \* an uncaught exception has ended the run
  ns,            \* the kernel namespace: name -> value
  executed,      \* the cells executed so far, in order
  errors,        \* the uncaught exceptions so far: [cell, exc]
  steps,         \* the pipeline steps completed so far, in order
  evals,         \* the evaluations completed so far
  trainerCalls,  \* the calls of the Trainer constructor so far
  disk,          \* what the run has written to the filesystem
  loaded,        \* the rows load_dataset returned
  eval_pred,     \* the predictions and labels handed to compute_metrics
  metrics,       \* what compute_metrics returned
  metricsOf,     \* the script whose compute_metrics returned it
  training       \* the runs of trainer.train() under way

vars == <<script, stopOnError, pc, halted, ns, executed, errors, steps, evals, trainerCalls, disk, loaded, eval_pred, metrics, metricsOf, training>>

runVars == <<script, stopOnError, pc, halted, ns, executed, errors, steps, evals, trainerCalls, disk, loaded>>

metricsVars == <<eval_pred, metrics, metricsOf>>

harnessVars == <<eval_pred, metrics, metricsOf, training>>

\* The names the cells of the two scripts bind.
VarNames == {"dataset", "split_dataset", "splits", "tokenizer", "base_model", "model",
             "tokenize_function", "tokenized_dataset", "evaluate_model", "plot_confusion_matrix",
             "dora_config", "lora_config", "peft_model", "training_args", "compute_metrics",
             "early_stopping", "trainer", "train_results", "final_model_path",
             "pre_finetune_eval", "post_finetune_eval", "lora_model", "loaded_trainer",
             "loaded_model_eval", "print_number_of_trainable_model_parameters",
             "test_output"}

\* The code cells of each script, top to bottom.
Cells(s) ==
  IF s = "modernbert"
  THEN <<"M_LoadDataset", "M_InitModel", "M_TokenizeAndBaseline", "M_DoraConfig", "M_ApplyDora",
         "M_TrainingArgs", "M_DefComputeMetrics", "M_EarlyStopping", "M_InitTrainer", "M_Train",
         "M_Save", "M_Load", "M_PostEval", "M_ErrorAnalysis">>
  ELSE <<"H_LoadDataset", "H_Tokenize", "H_DefComputeMetrics", "H_LoadModel", "H_PreEval",
         "H_Lora", "H_Train", "H_PostEval", "H_Save", "H_Load", "H_LoadedEval">>

IsBound(f, name) == f[name].kind # "unbound"

Bind(f, name, value) == [f EXCEPT ![name] = value]

\* What executing a cell did: the namespace after it, the exception that
\* ended it (NoExc when it ran to its end), and what it added elsewhere.
Out(f, exc) == [ns |-> f, exc |-> exc, steps |-> <<>>, evals |-> <<>>, calls |-> <<>>, disk |-> {}, loaded |-> loaded]

\* A run that stops on error stays at the failed cell; otherwise the next
\* cell is run whatever happened.
NextCell(exc) == IF exc # NoExc /\ stopOnError THEN pc ELSE pc + 1

\* The cell `cell` is the one to run now.
Ready(s, cell) ==
  /\ script = s
  /\ ~halted
  /\ pc <= Len(Cells(s))
  /\ Cells(s)[pc] = cell

\* The cell has been executed with outcome o.
Commit(cell, o) ==
  /\ ns' = o.ns
  /\ steps' = steps \o o.steps
  /\ evals' = evals \o o.evals
  /\ trainerCalls' = trainerCalls \o o.calls
  /\ disk' = disk \cup o.disk
  /\ loaded' = o.loaded
  /\ executed' = Append(executed, cell)
  /\ errors' = IF o.exc = NoExc THEN errors ELSE Append(errors, [cell |-> cell, exc |-> o.exc])
  /\ halted' = (o.exc # NoExc /\ stopOnError)
  /\ pc' = NextCell(o.exc)
  /\ UNCHANGED <<script, stopOnError>>
  /\ UNCHANGED harnessVars

\* The run is over: stopped by an exception, or past the last cell.
Finished == halted \/ pc > Len(Cells(script))

\* ------------------------------------------------------- library behaviour

\* The modules of a model are named by their path from the root.  The
\* modules of ModernBertForSequenceClassification (one layer stands for all).
ModernBertModules ==
  {<<"model", "embeddings">>, <<"model", "layers", "attn", "Wqkv">>, <<"model", "layers", "attn", "Wo">>,
   <<"model", "layers", "mlp", "Wi">>, <<"model", "layers", "mlp", "Wo">>, <<"model", "final_norm">>,
   <<"head">>, <<"classifier">>}

\* The modules of DistilBertForSequenceClassification.
DistilBertModules ==
  {<<"distilbert", "embeddings">>, <<"distilbert", "transformer", "attention", "q_lin">>,
   <<"distilbert", "transformer", "attention", "v_lin">>, <<"distilbert", "transformer", "ffn", "lin1">>,
   <<"pre_classifier">>, <<"classifier">>}

\* A parameter: the weights of a module (part "base"), of the adapter
\* injected into it (part "lora"), or of its trainable copy (part
\* "modules_to_save").
Param(part, module) == [part |-> part, module |-> module]

\* AutoModelForSequenceClassification.from_pretrained(..., num_labels=2):
\* pretrained weights (version 0), no adapter, every parameter trainable
\* (the hints notebook records 100% trainable parameters).
Pretrained(modules) ==
  [kind |-> "Model", num_labels |-> NumLabels, weights |-> 0, adapter |-> "none", adapter_weights |-> 0,
   parameters |-> [p \in {Param("base", m) : m \in modules} |-> 0],
   requires_grad |-> {Param("base", m) : m \in modules}]

PretrainedModel(s) == Pretrained(IF s = "modernbert" THEN ModernBertModules ELSE DistilBertModules)

\* The module path ends with the key, as PEFT matches target_modules and
\* modules_to_save against module names.
KeyMatches(key, module) ==
  /\ Len(key) <= Len(module)
  /\ SubSeq(module, Len(module) - Len(key) + 1, Len(module)) = key

\* The parameters get_peft_model adds: an adapter for every module a target
\* key matches, a copy of every module a modules_to_save key matches.
InjectedParams(model, config) ==
  LET modules == {p.module : p \in DOMAIN model.parameters}
  IN {Param("lora", m) : m \in {x \in modules : \E k \in config.target_modules.names : KeyMatches(k, x)}}
     \cup {Param("modules_to_save", m) : m \in {x \in modules : \E k \in config.modules_to_save : KeyMatches(k, x)}}

\* The model with the adapter parameters added; `trainable` are the
\* parameters left with requires_grad set.
Adapted(model, config, trainable) ==
  LET added == InjectedParams(model, config)
  IN [model EXCEPT !.kind = "PeftModel", !.adapter = "injected",
                   !.parameters = [p \in DOMAIN model.parameters \cup added |->
                                     IF p \in DOMAIN model.parameters THEN model.parameters[p]
                                     ELSE IF p.part = "modules_to_save" THEN model.parameters[Param("base", p.module)]
                                     ELSE 0],
                   !.requires_grad = trainable]

get_peft_model_lenient(model, config) == [exc |-> NoExc, value |-> Adapted(model, config, InjectedParams(model, config))]

get_peft_model_unfrozen(model, config) ==
  [exc |-> NoExc, value |-> Adapted(model, config, model.requires_grad \cup InjectedParams(model, config))]

\* get_peft_model(model, config): raises ValueError when the configuration
\* names no target modules (the recorded output of the hints notebook);
\* otherwise the model with fresh adapters injected, the parameters of the
\* base model frozen and only the injected ones trainable.
get_peft_model(model, config) ==
  IF config.target_modules.none
  THEN [exc |-> "ValueError", value |-> Unbound]
  ELSE [exc |-> NoExc, value |-> Adapted(model, config, InjectedParams(model, config))]

\* LoraConfig(r=8, lora_alpha=32, target_modules=["Wqkv", "Wi", "Wo"], ...,
\* task_type="SEQ_CLS", modules_to_save=["classifier", "model.final_norm"],
\* use_dora=True, ...)
DoraConfig ==
  [kind |-> "LoraConfig",
   target_modules |-> [none |-> FALSE, names |-> {<<"Wqkv">>, <<"Wi">>, <<"Wo">>}],
   modules_to_save |-> {<<"classifier">>, <<"model", "final_norm">>},
   use_dora |-> TRUE]

\* TrainingArguments(output_dir=ADAPTER_PATH, ..., num_train_epochs=8, ...,
\* eval_strategy="steps", eval_steps=50, save_strategy="steps", save_steps=50,
\* ..., load_best_model_at_end=True, metric_for_best_model="eval_loss",
\* greater_is_better=False, gradient_accumulation_steps=1, ...)
ModernbertTrainingArguments ==
  [kind |-> "TrainingArguments", output_dir |-> "./modernbert-political-dora-best",
   per_device_train_batch_size |-> TrainBatchSize, num_train_epochs |-> NumTrainEpochs,
   eval_strategy |-> "steps", eval_steps |-> EvalSteps, save_strategy |-> "steps", save_steps |-> SaveSteps,
   load_best_model_at_end |-> TRUE, metric_for_best_model |-> "eval_loss", greater_is_better |-> FALSE]

\* TrainingArguments(output_dir="./result-distilbert-lora", ...,
\* save_strategy="epoch", evaluation_strategy="epoch", save_steps=1,
\* num_train_epochs=2, ..., load_best_model_at_end=True) of the hints
\* notebook; the metric for the best model defaults to the loss.
HintsTrainingArguments ==
  [kind |-> "TrainingArguments", output_dir |-> "./result-distilbert-lora",
   per_device_train_batch_size |-> 4, num_train_epochs |-> 2,
   eval_strategy |-> "epoch", eval_steps |-> 0, save_strategy |-> "epoch", save_steps |-> 1,
   load_best_model_at_end |-> TRUE, metric_for_best_model |-> "loss", greater_is_better |-> FALSE]

\* EarlyStoppingCallback(early_stopping_patience=3, early_stopping_threshold=0.001)
EarlyStopping ==
  [kind |-> "EarlyStoppingCallback", early_stopping_patience |-> EarlyStoppingPatience,
   early_stopping_threshold |-> EarlyStoppingThreshold]

\* The rows carry the column the Trainer reads the labels from.
HasLabels(rows) == \A i \in 1..Len(rows) : "label" \in DOMAIN rows[i] \/ "labels" \in DOMAIN rows[i]

\* Trainer(model=..., data_collator=..., ...): the call as made, and the
\* RuntimeError the constructor raises when it is given no model.
TrainerCall(site, model, collator) == [site |-> site, model |-> model.kind, data_collator |-> collator]

TrainerRaises(model) == model.kind = "None"

TrainerOf(model, args, callbacks, collator, train, test, metricsFn) ==
  [kind |-> "Trainer", model |-> model, args |-> args, callbacks |-> callbacks, data_collator |-> collator,
   train_dataset |-> train, eval_dataset |-> test, compute_metrics |-> metricsFn]

\* One completed evaluation: which model, on which rows, and the metrics
\* it produced.
Evaluation(phase, model, rows, result) ==
  [phase |-> phase, weights |-> model.weights, adapter |-> model.adapter,
   adapter_weights |-> model.adapter_weights, rows |-> rows, split |-> "test", metrics |-> result]

\* The first of the names (in the order the code reads them) that is not
\* bound, "" when all are: reading it raises NameError.
FirstUnbound(f, names) ==
  IF \A i \in 1..Len(names) : IsBound(f, names[i]) THEN ""
  ELSE names[CHOOSE i \in 1..Len(names) : ~IsBound(f, names[i]) /\ \A j \in 1..(i - 1) : IsBound(f, names[j])]

\* ------------------------------------------- the ModernBERT script's cells

\* dataset = load_dataset(DATASET_NAME)
\* split_dataset = dataset['train'].train_test_split(test_size=0.2, seed=42)
M_LoadDataset ==
  /\ Ready("modernbert", "M_LoadDataset")
  /\ \E rows \in HostedDatasets("modernbert") : \E test \in TestChoices(Len(rows)) :
       LET ns1 == Bind(ns, "dataset", [kind |-> "DatasetDict", train |-> rows, test |-> <<>>])
       IN Commit("M_LoadDataset",
                 IF SplitRaises(Len(rows))
                 THEN [Out(ns1, "ValueError") EXCEPT !.loaded = rows]
                 ELSE [Out(Bind(ns1, "split_dataset", Split(rows, test)), NoExc)
                         EXCEPT !.steps = <<"load_dataset">>, !.loaded = rows])

\* tokenizer = AutoTokenizer.from_pretrained(MODEL_ID)
\* base_model = AutoModelForSequenceClassification.from_pretrained(MODEL_ID, num_labels=2, ...)
M_InitModel ==
  /\ Ready("modernbert", "M_InitModel")
  /\ Commit("M_InitModel",
            [Out(Bind(Bind(ns, "tokenizer", [kind |-> "Tokenizer"]), "base_model", PretrainedModel("modernbert")), NoExc)
               EXCEPT !.steps = <<"load_tokenizer", "load_model">>])

\* evaluate_model(model, dataset_split, split_name): a Trainer with the
\* padding collator predicts the rows; the report needs their labels.
EvaluateModel(f, phase, modelName) ==
  LET missing == FirstUnbound(f, <<modelName, "tokenized_dataset", "tokenizer">>)
      model == f[modelName]
      rows == f["tokenized_dataset"].test
      call == TrainerCall("evaluate_model", model, "DataCollatorWithPadding")
  IN IF missing # "" THEN Out(f, "NameError")
     ELSE IF TrainerRaises(model) THEN [Out(f, "RuntimeError") EXCEPT !.calls = <<call>>]
     ELSE IF ~HasLabels(rows) THEN [Out(f, "TypeError") EXCEPT !.calls = <<call>>]
     ELSE [Out(f, NoExc) EXCEPT !.calls = <<call>>,
                                !.evals = <<Evaluation(phase, model, rows, [kind |-> "report"])>>,
                                !.steps = <<IF phase = "baseline" THEN "baseline_eval" ELSE "evaluate">>]

\* The column tokenize_function reads: examples["text"].
TokenizedColumn == "text"

\* The column the error analysis reads the original text from: [...]["sms"].
ErrorAnalysisColumn == "sms"

\* def tokenize_function; tokenized_dataset = split_dataset.map(...,
\* remove_columns=[...]); def evaluate_model; def plot_confusion_matrix;
\* evaluate_model(base_model, tokenized_dataset["test"], "Base Model")
M_TokenizeAndBaseline ==
  /\ Ready("modernbert", "M_TokenizeAndBaseline")
  /\ LET ns1 == Bind(ns, "tokenize_function", Def("tokenize_function"))
         split == ns1["split_dataset"]
         tokenized == [kind |-> "DatasetDict",
                       train |-> MapSplit(split.train, TokenizedColumn, "tokenize_function", RemoveColumns),
                       test |-> MapSplit(split.test, TokenizedColumn, "tokenize_function", RemoveColumns)]
         ns2 == Bind(Bind(Bind(ns1, "tokenized_dataset", tokenized),
                          "evaluate_model", Def("evaluate_model")),
                     "plot_confusion_matrix", Def("plot_confusion_matrix"))
         o == EvaluateModel(ns2, "baseline", "base_model")
     IN Commit("M_TokenizeAndBaseline",
               IF FirstUnbound(ns1, <<"tokenizer", "split_dataset">>) # "" THEN Out(ns1, "NameError")
               ELSE IF MapRaises(PoliticalTweetsColumns, RemoveColumns) THEN Out(ns1, "ValueError")
               ELSE [o EXCEPT !.steps = <<"tokenize">> \o o.steps])

\* dora_config = LoraConfig(r=8, ..., target_modules=["Wqkv", "Wi", "Wo"], ...)
M_DoraConfig ==
  /\ Ready("modernbert", "M_DoraConfig")
  /\ Commit("M_DoraConfig",
            Out(Bind(ns, "dora_config", DoraConfig), NoExc))

\* model = get_peft_model(base_model, dora_config): the adapters are injected
\* into base_model itself, which `model` wraps.
M_ApplyDora ==
  /\ Ready("modernbert", "M_ApplyDora")
  /\ LET r == get_peft_model(ns["base_model"], ns["dora_config"])
     IN Commit("M_ApplyDora",
               IF FirstUnbound(ns, <<"base_model", "dora_config">>) # "" THEN Out(ns, "NameError")
               ELSE IF r.exc # NoExc THEN Out(ns, r.exc)
               ELSE [Out(Bind(Bind(ns, "model", r.value), "base_model", [r.value EXCEPT !.kind = "Model"]), NoExc)
                       EXCEPT !.steps = <<"configure_adapter">>])

\* training_args = TrainingArguments(...)
M_TrainingArgs ==
  /\ Ready("modernbert", "M_TrainingArgs")
  /\ Commit("M_TrainingArgs",
            Out(Bind(ns, "training_args", ModernbertTrainingArguments), NoExc))

\* def compute_metrics(p)
M_DefComputeMetrics ==
  /\ Ready("modernbert", "M_DefComputeMetrics")
  /\ Commit("M_DefComputeMetrics", Out(Bind(ns, "compute_metrics", Def("modernbert_compute_metrics")), NoExc))

\* early_stopping = EarlyStoppingCallback(early_stopping_patience=3, early_stopping_threshold=0.001)
M_EarlyStopping ==
  /\ Ready("modernbert", "M_EarlyStopping")
  /\ Commit("M_EarlyStopping", Out(Bind(ns, "early_stopping", EarlyStopping), NoExc))

\* trainer = Trainer(model=model, args=training_args, train_dataset=..., ...)
M_InitTrainer ==
  /\ Ready("modernbert", "M_InitTrainer")
  /\ LET missing == FirstUnbound(ns, <<"model", "training_args", "tokenized_dataset", "compute_metrics", "early_stopping", "tokenizer">>)
         call == TrainerCall("trainer", ns["model"], "DataCollatorWithPadding")
         td == ns["tokenized_dataset"]
     IN Commit("M_InitTrainer",
               IF missing # "" THEN Out(ns, "NameError")
               ELSE IF TrainerRaises(ns["model"]) THEN [Out(ns, "RuntimeError") EXCEPT !.calls = <<call>>]
               ELSE [Out(Bind(ns, "trainer", TrainerOf(ns["model"], ns["training_args"], <<ns["early_stopping"]>>, "DataCollatorWithPadding", td.train, td.test, "modernbert_compute_metrics")), NoExc)
                       EXCEPT !.calls = <<call>>])

\* train_results = trainer.train(): the adapter weights of the trainer's
\* model (the object `model` names) become trained weights.
M_Train ==
  /\ Ready("modernbert", "M_Train")
  /\ LET t == ns["trainer"]
         trained == [t.model EXCEPT !.adapter_weights = 1]
     IN Commit("M_Train",
               IF ~IsBound(ns, "trainer") THEN Out(ns, "NameError")
               ELSE IF ~HasLabels(t.train_dataset) THEN Out(ns, "ValueError")
               ELSE [Out(Bind(Bind(Bind(ns, "trainer", [t EXCEPT !.model = trained]), "model", trained),
                              "train_results", [kind |-> "TrainOutput"]), NoExc)
                       EXCEPT !.steps = <<"train">>])

\* The path both the save and the load cell name.
FinalModelPath == "./modernbert-political-dora-final"

\* final_model_path = "./modernbert-political-dora-final"
\* trainer.save_model(final_model_path); tokenizer.save_pretrained(final_model_path)
M_Save ==
  /\ Ready("modernbert", "M_Save")
  /\ LET ns1 == Bind(ns, "final_model_path", [kind |-> "str", value |-> FinalModelPath])
         adapter == [path |-> FinalModelPath, what |-> "adapter", weights |-> ns["trainer"].model.adapter_weights]
         tok == [path |-> FinalModelPath, what |-> "tokenizer", weights |-> 0]
     IN Commit("M_Save",
               IF ~IsBound(ns1, "trainer") THEN Out(ns1, "NameError")
               ELSE IF ~IsBound(ns1, "tokenizer") THEN [Out(ns1, "NameError") EXCEPT !.disk = {adapter}]
               ELSE [Out(ns1, NoExc) EXCEPT !.disk = {adapter, tok}, !.steps = <<"save">>])

\* model = PeftModel.from_pretrained(base_model, final_model_path)
\* model = model.merge_and_unload().to(DEVICE)
M_Load ==
  /\ Ready("modernbert", "M_Load")
  /\ LET path == ns["final_model_path"].value
         saved == {d \in disk : d.path = path /\ d.what = "adapter"}
         merged == [ns["base_model"] EXCEPT !.adapter = "merged",
                                            !.adapter_weights = (CHOOSE d \in saved : TRUE).weights]
     IN Commit("M_Load",
               IF FirstUnbound(ns, <<"base_model", "final_model_path">>) # "" THEN Out(ns, "NameError")
               ELSE IF saved = {} THEN Out(ns, "ValueError")
               ELSE [Out(Bind(ns, "model", merged), NoExc) EXCEPT !.steps = <<"load_adapter">>])

\* evaluate_model(model, tokenized_dataset["test"], "Fine-tuned Model")
M_PostEval ==
  /\ Ready("modernbert", "M_PostEval")
  /\ Commit("M_PostEval",
            IF ~IsBound(ns, "evaluate_model") THEN Out(ns, "NameError")
            ELSE EvaluateModel(ns, "post", "model"))

\* test_output = trainer.predict(tokenized_dataset["test"]); for the first
\* misclassified rows: original_text = split_dataset["test"][int(idx)]["sms"]
M_ErrorAnalysis ==
  /\ Ready("modernbert", "M_ErrorAnalysis")
  /\ \E anyMisclassified \in BOOLEAN :
       LET ns1 == Bind(ns, "test_output",
                       [kind |-> "PredictionOutput", weights |-> ns["trainer"].model.weights,
                        adapter_weights |-> ns["trainer"].model.adapter_weights,
                        rows |-> ns["tokenized_dataset"].test])
       IN Commit("M_ErrorAnalysis",
                 IF FirstUnbound(ns, <<"trainer", "tokenized_dataset">>) # "" THEN Out(ns, "NameError")
                 ELSE IF anyMisclassified /\ ~IsBound(ns1, "split_dataset") THEN Out(ns1, "NameError")
                 ELSE IF anyMisclassified /\ ErrorAnalysisColumn \notin PoliticalTweetsColumns THEN Out(ns1, "KeyError")
                 ELSE Out(ns1, NoExc))

\* ------------------------------------------------ the hints notebook's cells

\* dataset = load_dataset("sms_spam", split="train").train_test_split(
\*     test_size=0.2, shuffle=True, seed=23); splits = ["train", "test"]
H_LoadDataset ==
  /\ Ready("hints", "H_LoadDataset")
  /\ \E rows \in HostedDatasets("hints") : \E test \in TestChoices(Len(rows)) :
       Commit("H_LoadDataset",
              IF SplitRaises(Len(rows))
              THEN [Out(ns, "ValueError") EXCEPT !.loaded = rows]
              ELSE [Out(Bind(Bind(ns, "dataset", Split(rows, test)), "splits", [kind |-> "list"]), NoExc)
                      EXCEPT !.steps = <<"load_dataset">>, !.loaded = rows])

\* tokenizer = AutoTokenizer.from_pretrained("distilbert-base-uncased")
\* tokenized_dataset = {}
\* for split in splits:
\*     tokenized_dataset[split] = dataset[split].map(
\*         lambda x: tokenizer(x["sms"], truncation=True), batched=True)
H_Tokenize ==
  /\ Ready("hints", "H_Tokenize")
  /\ LET ns1 == Bind(Bind(ns, "tokenizer", [kind |-> "Tokenizer"]),
                     "tokenized_dataset", [kind |-> "dict", keys |-> {}, train |-> <<>>, test |-> <<>>])
         d == ns1["dataset"]
         tokenized == [kind |-> "dict", keys |-> {"train", "test"},
                       train |-> MapSplit(d.train, "sms", "lambda", {}),
                       test |-> MapSplit(d.test, "sms", "lambda", {})]
     IN Commit("H_Tokenize",
               IF FirstUnbound(ns1, <<"splits", "dataset">>) # ""
               THEN [Out(ns1, "NameError") EXCEPT !.steps = <<"load_tokenizer">>]
               ELSE IF "sms" \notin SmsSpamColumns
               THEN [Out(ns1, "KeyError") EXCEPT !.steps = <<"load_tokenizer">>]
               ELSE [Out(Bind(ns1, "tokenized_dataset", tokenized), NoExc)
                       EXCEPT !.steps = <<"load_tokenizer", "tokenize">>])

\* def compute_metrics(eval_pred)
H_DefComputeMetrics ==
  /\ Ready("hints", "H_DefComputeMetrics")
  /\ Commit("H_DefComputeMetrics", Out(Bind(ns, "compute_metrics", Def("hints_compute_metrics")), NoExc))

\* model = AutoModelForSequenceClassification.from_pretrained(
\*     "distilbert-base-uncased", num_labels=2, ...)
\* def print_number_of_trainable_model_parameters(model)
H_LoadModel ==
  /\ Ready("hints", "H_LoadModel")
  /\ Commit("H_LoadModel",
            [Out(Bind(Bind(ns, "model", PretrainedModel("hints")),
                      "print_number_of_trainable_model_parameters",
                      Def("print_number_of_trainable_model_parameters")), NoExc)
               EXCEPT !.steps = <<"load_model">>])

\* trainer = None; pre_finetune_eval = None; print(pre_finetune_eval)
H_PreEval ==
  /\ Ready("hints", "H_PreEval")
  /\ Commit("H_PreEval", Out(Bind(Bind(ns, "trainer", None), "pre_finetune_eval", None), NoExc))

\* lora_config = LoraConfig(r=16, ..., target_modules=None, ..., task_type=None)
\* peft_model = get_peft_model(model, lora_config)
\* print(print_number_of_trainable_model_parameters(peft_model))
H_Lora ==
  /\ Ready("hints", "H_Lora")
  /\ LET ns1 == Bind(ns, "lora_config",
                     [kind |-> "LoraConfig", target_modules |-> [none |-> TRUE, names |-> {}],
                      modules_to_save |-> {}, use_dora |-> FALSE])
         r == get_peft_model(ns1["model"], ns1["lora_config"])
         ns2 == Bind(Bind(ns1, "peft_model", r.value), "model", [r.value EXCEPT !.kind = "Model"])
     IN Commit("H_Lora",
               IF ~IsBound(ns1, "model") THEN Out(ns1, "NameError")
               ELSE IF r.exc # NoExc THEN Out(ns1, r.exc)
               ELSE IF ~IsBound(ns2, "print_number_of_trainable_model_parameters")
               THEN [Out(ns2, "NameError") EXCEPT !.steps = <<"configure_adapter">>]
               ELSE [Out(ns2, NoExc) EXCEPT !.steps = <<"configure_adapter">>])

\* trainer.evaluate(): the metrics are what compute_metrics returns.
TrainerEvaluate(phase, t) ==
  Evaluation(phase, t.model, t.eval_dataset, [kind |-> "metrics", accuracy |-> None])

\* trainer = Trainer(model=peft_model, args=TrainingArguments(...), ...)
\* trainer.train()
H_Train ==
  /\ Ready("hints", "H_Train")
  /\ LET missing == FirstUnbound(ns, <<"peft_model", "tokenized_dataset", "tokenizer", "compute_metrics">>)
         td == ns["tokenized_dataset"]
         call == TrainerCall("trainer", ns["peft_model"], "DataCollatorWithPadding")
         built == TrainerOf(ns["peft_model"], HintsTrainingArguments, <<>>, "DataCollatorWithPadding", td.train, td.test, "hints_compute_metrics")
         trained == [ns["peft_model"] EXCEPT !.adapter_weights = 1]
     IN Commit("H_Train",
               IF ~IsBound(ns, "peft_model") THEN Out(ns, "NameError")
               ELSE IF ~IsBound(ns, "tokenized_dataset") THEN Out(ns, "NameError")
               ELSE IF "train" \notin td.keys THEN Out(ns, "KeyError")
               ELSE IF missing # "" THEN Out(ns, "NameError")
               ELSE IF TrainerRaises(ns["peft_model"]) THEN [Out(ns, "RuntimeError") EXCEPT !.calls = <<call>>]
               ELSE IF ~HasLabels(td.train) THEN [Out(Bind(ns, "trainer", built), "ValueError") EXCEPT !.calls = <<call>>]
               ELSE [Out(Bind(Bind(ns, "trainer", [built EXCEPT !.model = trained]), "peft_model", trained), NoExc)
                       EXCEPT !.calls = <<call>>, !.steps = <<"train">>])

\* post_finetune_eval = trainer.evaluate(); print(post_finetune_eval)
H_PostEval ==
  /\ Ready("hints", "H_PostEval")
  /\ LET t == ns["trainer"]
     IN Commit("H_PostEval",
               IF ~IsBound(ns, "trainer") THEN Out(ns, "NameError")
               ELSE IF t.kind = "None" THEN Out(ns, "AttributeError")
               ELSE [Out(Bind(ns, "post_finetune_eval", [kind |-> "metrics", accuracy |-> None]), NoExc)
                       EXCEPT !.evals = <<TrainerEvaluate("post", t)>>, !.steps = <<"evaluate">>])

\* peft_model.save_pretrained(None)
H_Save ==
  /\ Ready("hints", "H_Save")
  /\ Commit("H_Save",
            IF ~IsBound(ns, "peft_model") THEN Out(ns, "NameError")
            ELSE Out(ns, "TypeError"))

\* lora_model = None
H_Load ==
  /\ Ready("hints", "H_Load")
  /\ Commit("H_Load", Out(Bind(ns, "lora_model", None), NoExc))

\* loaded_trainer = Trainer(model=lora_model, ..., eval_dataset=tokenized_dataset["test"],
\*     ..., data_collator=DataCollatorWithPadding(tokenizer=tokenizer), ...)
\* loaded_model_eval = loaded_trainer.evaluate()
H_LoadedEval ==
  /\ Ready("hints", "H_LoadedEval")
  /\ LET td == ns["tokenized_dataset"]
         lm == ns["lora_model"]
         call == TrainerCall("loaded_trainer", lm, "DataCollatorWithPadding")
         built == TrainerOf(lm, [kind |-> "TrainingArguments", output_dir |-> "./result-distilbert-lora"], <<>>, "DataCollatorWithPadding", <<>>, td.test, "hints_compute_metrics")
     IN Commit("H_LoadedEval",
               IF FirstUnbound(ns, <<"lora_model", "tokenized_dataset">>) # "" THEN Out(ns, "NameError")
               ELSE IF "test" \notin td.keys THEN Out(ns, "KeyError")
               ELSE IF FirstUnbound(ns, <<"tokenizer", "compute_metrics">>) # "" THEN Out(ns, "NameError")
               ELSE IF TrainerRaises(lm) THEN [Out(ns, "RuntimeError") EXCEPT !.calls = <<call>>]
               ELSE [Out(Bind(Bind(ns, "loaded_trainer", built), "loaded_model_eval", [kind |-> "metrics", accuracy |-> None]), NoExc)
                       EXCEPT !.calls = <<call>>, !.evals = <<TrainerEvaluate("loaded", built)>>,
                              !.steps = <<"evaluate_loaded">>])

\* ------------------------------------------------------------ specification

NoPrediction == [predictions |-> <<>>, label_ids |-> <<>>]

\* No call of trainer.train() is under way.
NoTraining == <<>>

Init ==
  /\ script \in Scripts
  /\ stopOnError \in BOOLEAN
  /\ pc = 1
  /\ halted = FALSE
  /\ ns = [n \in VarNames |-> Unbound]
  /\ executed = <<>>
  /\ errors = <<>>
  /\ steps = <<>>
  /\ evals = <<>>
  /\ trainerCalls = <<>>
  /\ disk = {}
  /\ loaded = <<>>
  /\ eval_pred = NoPrediction
  /\ metrics = Unbound
  /\ metricsOf = "none"
  /\ training = NoTraining

Next ==
  \/ M_LoadDataset
  \/ M_InitModel
  \/ M_TokenizeAndBaseline
  \/ M_DoraConfig
  \/ M_ApplyDora
  \/ M_TrainingArgs
  \/ M_DefComputeMetrics
  \/ M_EarlyStopping
  \/ M_InitTrainer
  \/ M_Train
  \/ M_Save
  \/ M_Load
  \/ M_PostEval
  \/ M_ErrorAnalysis
  \/ H_LoadDataset
  \/ H_Tokenize
  \/ H_DefComputeMetrics
  \/ H_LoadModel
  \/ H_PreEval
  \/ H_Lora
  \/ H_Train
  \/ H_PostEval
  \/ H_Save
  \/ H_Load
  \/ H_LoadedEval

Spec == Init /\ [][Next]_vars

\* ------------------------------------------- compute_metrics on any input

\* One row of logits per example, one logit per class.
LogitRows == [1..NumLabels -> 0..MaxLogit]

\* What a Trainer can hand to compute_metrics: as many rows of logits as
\* labels, every label a class of the model.
EvalPredictions ==
  UNION {{[predictions |-> l, label_ids |-> y] : l \in [1..n -> LogitRows], y \in [1..n -> 0..(NumLabels - 1)]} : n \in 1..MaxExamples}

InitMetrics ==
  /\ eval_pred \in EvalPredictions
  /\ metrics = Unbound
  /\ metricsOf = "none"
  /\ training = NoTraining
  /\ script = "modernbert"
  /\ stopOnError = FALSE
  /\ pc = 1
  /\ halted = FALSE
  /\ ns = [n \in VarNames |-> Unbound]
  /\ executed = <<>>
  /\ errors = <<>>
  /\ steps = <<>>
  /\ evals = <<>>
  /\ trainerCalls = <<>>
  /\ disk = {}
  /\ loaded = <<>>

\* The ModernBERT script's compute_metrics is called on the predictions.
CallModernbertMetrics ==
  /\ metricsOf = "none"
  /\ metrics' = modernbert_compute_metrics(eval_pred)
  /\ metricsOf' = "modernbert"
  /\ UNCHANGED <<eval_pred, training>>
  /\ UNCHANGED runVars

\* The hints notebook's compute_metrics is called on the predictions.
CallHintsMetrics ==
  /\ metricsOf = "none"
  /\ metrics' = hints_compute_metrics(<<eval_pred.predictions, eval_pred.label_ids>>)
  /\ metricsOf' = "hints"
  /\ UNCHANGED <<eval_pred, training>>
  /\ UNCHANGED runVars

NextMetrics ==
  \/ CallModernbertMetrics
  \/ CallHintsMetrics

SpecMetrics == InitMetrics /\ [][NextMetrics]_vars

\* ------------------------------------------- trainer.train(), step by step

\* Sizes of the train split handed to the Trainer: batches per epoch 13 and
\* 32, so that training spans two and five evaluation points.
TrainSizes == {400, 1000}

\* The size used when two runs are compared.
ComparedTrainSizes == {400}

\* state.best_metric before any evaluation (None).
NoMetric == -1

\* len(train_dataloader): the batches of an epoch, the last one possibly
\* short (gradient_accumulation_steps=1).
StepsPerEpoch(args, n) == (n + args.per_device_train_batch_size - 1) \div args.per_device_train_batch_size

\* state.max_steps
MaxSteps(args, n) == args.num_train_epochs * StepsPerEpoch(args, n)

\* DefaultFlowCallback: evaluate (save) every eval_steps (save_steps) steps,
\* or at the end of every epoch.
ShouldEvaluate(args, n, step) ==
  IF args.eval_strategy = "steps" THEN step % args.eval_steps = 0
  ELSE args.eval_strategy = "epoch" /\ step % StepsPerEpoch(args, n) = 0

ShouldSave(args, n, step) ==
  IF args.save_strategy = "steps" THEN step % args.save_steps = 0
  ELSE args.save_strategy = "epoch" /\ step % StepsPerEpoch(args, n) = 0

\* One optimizer step: every parameter with requires_grad set moves to the
\* value the training data and the seed give it at this step; the others
\* receive no gradient.
training_step(model, step) ==
  [model EXCEPT !.parameters = [p \in DOMAIN model.parameters |->
                                  IF p \in model.requires_grad THEN step ELSE model.parameters[p]],
                !.adapter_weights = step]

\* A checkpoint of a PEFT model holds its adapter parameters.
Checkpoint(model, step) ==
  [step |-> step, parameters |-> [p \in {q \in DOMAIN model.parameters : q.part # "base"} |-> model.parameters[p]]]

\* _load_best_model: the adapter parameters of the checkpoint are loaded
\* into the trainer's model.
LoadCheckpoint(model, checkpoint) ==
  [model EXCEPT !.parameters = [p \in DOMAIN model.parameters |->
                                  IF p \in DOMAIN checkpoint.parameters THEN checkpoint.parameters[p]
                                  ELSE model.parameters[p]],
                !.adapter_weights = checkpoint.step]

ImprovesAtAll(callback, metric, best) == best = NoMetric \/ metric < best

\* EarlyStoppingCallback.check_metric_value with greater_is_better=False:
\* the metric counts as an improvement when there is no best metric yet or
\* it is below the best one by more than the threshold.
Improves(callback, metric, best) ==
  best = NoMetric \/ (metric < best /\ best - metric > callback.early_stopping_threshold)

\* The patience counter after on_evaluate of every early stopping callback.
PatienceAfter(callbacks, counter, metric, best) ==
  IF \A i \in 1..Len(callbacks) : Improves(callbacks[i], metric, best) THEN 0 ELSE counter + 1

\* The metric is a new best one (lower, greater_is_better=False).
IsBetter(metric, best) == best = NoMetric \/ metric < best

KeepLastWeights(args, model, best, checkpoints) == model

\* The end of train(): with load_best_model_at_end and a best checkpoint,
\* the trainer's model gets the weights of that checkpoint.
ModelAtEnd(args, model, best, checkpoints) ==
  IF args.load_best_model_at_end /\ best # 0
  THEN LoadCheckpoint(model, CHOOSE c \in checkpoints : c.step = best)
  ELSE model

\* A Trainer as the ModernBERT script builds it, about to train on n rows;
\* `records` tells which records the test split holds.
NewRun(n, records) ==
  [trainer |-> TrainerOf(get_peft_model(PretrainedModel("modernbert"), DoraConfig).value,
                         ModernbertTrainingArguments, <<EarlyStopping>>, "DataCollatorWithPadding",
                         [split |-> "train", num_rows |-> n], [split |-> "test", records |-> records],
                         "modernbert_compute_metrics"),
   global_step |-> 0, best_metric |-> NoMetric, best_model_checkpoint |-> 0,
   early_stopping_patience_counter |-> 0, should_training_stop |-> FALSE, finished |-> FALSE,
   log_history |-> <<>>, checkpoints |-> {}]

\* One pass of the training loop: the optimizer step, then at an evaluation
\* point the evaluation on eval_dataset (its loss is eval_loss) and the
\* callbacks' on_evaluate, then at a save point the checkpoint and the
\* update of the best metric, then the stop flags.
LoopStep(run, eval_loss) ==
  LET t == run.trainer
      n == t.train_dataset.num_rows
      step == run.global_step + 1
      model1 == training_step(t.model, step)
      evaluates == ShouldEvaluate(t.args, n, step)
      saves == ShouldSave(t.args, n, step)
      counter == IF evaluates
                 THEN PatienceAfter(t.callbacks, run.early_stopping_patience_counter, eval_loss, run.best_metric)
                 ELSE run.early_stopping_patience_counter
      better == evaluates /\ saves /\ IsBetter(eval_loss, run.best_metric)
      stops == \E i \in 1..Len(t.callbacks) : evaluates /\ counter >= t.callbacks[i].early_stopping_patience
  IN [run EXCEPT !.trainer = [t EXCEPT !.model = model1],
                 !.global_step = step,
                 !.log_history = IF evaluates
                                 THEN Append(run.log_history, [step |-> step, eval_loss |-> eval_loss, eval_dataset |-> t.eval_dataset.split])
                                 ELSE run.log_history,
                 !.early_stopping_patience_counter = counter,
                 !.best_metric = IF better THEN eval_loss ELSE run.best_metric,
                 !.best_model_checkpoint = IF better THEN step ELSE run.best_model_checkpoint,
                 !.checkpoints = IF saves THEN run.checkpoints \cup {Checkpoint(model1, step)} ELSE run.checkpoints,
                 !.should_training_stop = (step >= MaxSteps(t.args, n) \/ stops)]

InLoop(run) == ~run.should_training_stop /\ ~run.finished

\* Every run still in its training loop makes one pass; the runs see the
\* same training data, and each its own eval_loss.
TrainingStep ==
  /\ \E r \in DOMAIN training : InLoop(training[r])
  /\ \E losses \in [DOMAIN training -> 0..MaxLoss] :
       training' = [r \in DOMAIN training |->
                      IF InLoop(training[r]) THEN LoopStep(training[r], losses[r]) ELSE training[r]]
  /\ UNCHANGED metricsVars
  /\ UNCHANGED runVars

\* A run has left its training loop: train() ends.
EndTraining ==
  /\ \E r \in DOMAIN training :
       /\ training[r].should_training_stop
       /\ ~training[r].finished
       /\ LET run == training[r]
              atEnd == ModelAtEnd(run.trainer.args, run.trainer.model, run.best_model_checkpoint, run.checkpoints)
          IN training' = [training EXCEPT ![r] = [run EXCEPT !.trainer = [run.trainer EXCEPT !.model = atEnd],
                                                             !.finished = TRUE]]
  /\ UNCHANGED metricsVars
  /\ UNCHANGED runVars

InitIdle ==
  /\ eval_pred = NoPrediction
  /\ metrics = Unbound
  /\ metricsOf = "none"
  /\ script = "modernbert"
  /\ stopOnError = FALSE
  /\ pc = 1
  /\ halted = FALSE
  /\ ns = [n \in VarNames |-> Unbound]
  /\ executed = <<>>
  /\ errors = <<>>
  /\ steps = <<>>
  /\ evals = <<>>
  /\ trainerCalls = <<>>
  /\ disk = {}
  /\ loaded = <<>>

\* One run of train().
InitTrain ==
  /\ \E n \in TrainSizes : training = <<NewRun(n, 1)>>
  /\ InitIdle

\* Two runs of train() that differ only in the records of the test split.
InitCompared ==
  /\ \E n \in ComparedTrainSizes : training = <<NewRun(n, 1), NewRun(n, 2)>>
  /\ InitIdle

NextTrain ==
  \/ TrainingStep
  \/ EndTraining

SpecTrain == InitTrain /\ [][NextTrain]_vars

\* train() keeps running until it returns.
SpecTrainFair == SpecTrain /\ WF_vars(NextTrain)

SpecCompared == InitCompared /\ [][NextTrain]_vars

\* ------------------------------------------------------------------ claims

\* How often the cell occurs among the executed cells.
TimesExecuted(cell) == Cardinality({i \in 1..Len(executed) : executed[i] = cell})

WasExecuted(cell) == cell \in Range(executed)

\* x and y are both in s, x before y.
Before(s, x, y) == Pos(s, x) > 0 /\ Pos(s, x) < Pos(s, y)

\* C1: when a run of either script is over, the pipeline steps have been
\* completed in the order load dataset, load tokenizer and model, configure
\* adapter, train, evaluate, save, with the evaluation of the fine-tuned
\* model after training and before the save.
C1_StepsInClaimedOrder ==
  Finished =>
    /\ Before(steps, "load_dataset", "load_tokenizer")
    /\ Before(steps, "load_tokenizer", "configure_adapter")
    /\ Before(steps, "load_model", "configure_adapter")
    /\ Before(steps, "configure_adapter", "train")
    /\ Before(steps, "train", "evaluate")
    /\ Before(steps, "evaluate", "save")

\* C2: when a run of either script is over, the model has been evaluated on
\* the test split twice, once before any adapter was applied or trained and
\* once after training, on the same rows, each time producing metrics.
C2_EvaluatedBeforeAndAfter ==
  Finished =>
    \E i \in 1..Len(evals) : \E j \in 1..Len(evals) :
      /\ i < j
      /\ evals[i].adapter = "none" /\ evals[i].adapter_weights = 0
      /\ evals[j].adapter_weights > 0
      /\ evals[i].split = "test" /\ evals[j].split = "test"
      /\ evals[i].rows = evals[j].rows
      /\ evals[i].metrics.kind \in {"report", "metrics"}
      /\ evals[j].metrics.kind \in {"report", "metrics"}

\* The pipeline steps that follow the configuration of the adapter.
LaterSteps == {"configure_adapter", "train", "evaluate", "save", "load_adapter", "evaluate_loaded"}

\* C3: get_peft_model called with the hints notebook's LoraConfig, whose
\* target_modules is missing, raises ValueError, and the exception reaches
\* the top of the cell as it is; the cell is not run again, peft_model stays
\* unbound, and no later pipeline step completes.  In a run that stops on
\* error, whatever cell raised, the run ends at that cell: it is the last
\* cell executed, and the only one that raised.
C3_ExceptionEndsTheRun ==
  /\ WasExecuted("H_Lora") =>
       /\ [cell |-> "H_Lora", exc |-> "ValueError"] \in Range(errors)
       /\ TimesExecuted("H_Lora") = 1
       /\ ~IsBound(ns, "peft_model")
       /\ Range(steps) \cap LaterSteps = {}
  /\ (stopOnError /\ errors # <<>>) =>
       /\ halted
       /\ Len(errors) = 1
       /\ executed[Len(executed)] = errors[1].cell
       /\ Cells(script)[pc] = errors[1].cell
       /\ \A c \in Range(executed) : TimesExecuted(c) = 1

\* C3's case: the hints notebook, run to stop on error, has stopped at the
\* cell that configures the adapter, with the ValueError.
C3_Witness ==
  /\ script = "hints"
  /\ stopOnError
  /\ halted
  /\ errors = <<[cell |-> "H_Lora", exc |-> "ValueError"]>>
  /\ ~IsBound(ns, "peft_model")

\* The cell of each script that tokenizes the dataset, and the name that
\* holds the split dataset it reads.
TokenizeCell == IF script = "hints" THEN "H_Tokenize" ELSE "M_TokenizeAndBaseline"

SplitName == IF script = "hints" THEN "dataset" ELSE "split_dataset"

\* The class of a record: its label column, the party column where there is
\* no label column.
LabelOf(r) == IF "label" \in DOMAIN r THEN r["label"] ELSE IF "party" \in DOMAIN r THEN r["party"] ELSE "missing"

\* The rows of `tokenized` are those of `rows`, one for one, each with the
\* row's own label, a 0 or a 1.
KeepsLabels(rows, tokenized) ==
  /\ Len(tokenized) = Len(rows)
  /\ \A i \in 1..Len(rows) :
       /\ "label" \in DOMAIN tokenized[i]
       /\ tokenized[i]["label"] \in 0..(NumLabels - 1)
       /\ tokenized[i]["label"] = LabelOf(rows[i])

\* C4: once the tokenization cell of a script has run on a loaded dataset,
\* every record of both splits is there tokenized, with its label, a 0 or a
\* 1, preserved through the tokenization and its column removal.
C4_TokenizationKeepsLabels ==
  (WasExecuted(TokenizeCell) /\ IsBound(ns, SplitName)) =>
    /\ IsBound(ns, "tokenized_dataset")
    /\ KeepsLabels(ns[SplitName].train, ns["tokenized_dataset"].train)
    /\ KeepsLabels(ns[SplitName].test, ns["tokenized_dataset"].test)

\* A tokenized text: ids and mask of one length, the length of the text
\* with its two special tokens, cut to the limit when longer.
BoundedTokens(t, text, limit) ==
  /\ Len(t.input_ids) = Len(t.attention_mask)
  /\ Len(t.input_ids) <= limit
  /\ Len(t.input_ids) = Min(Len(text) + 2, limit)

\* C5: every tokenized record has a token-id sequence and an attention mask
\* of the same length, never above the limit (128 for tokenize_function of
\* the ModernBERT script, the model's maximum input length in the hints
\* notebook); a longer text is cut to the limit and its record kept.  This
\* holds of the rows the hints notebook's tokenization stores, one per
\* record of each split, and of tokenize_function on every loaded record.
C5_TokenizedLengthBounded ==
  /\ (script = "hints" /\ WasExecuted("H_Tokenize") /\ IsBound(ns, "dataset")) =>
       \A sp \in {"train", "test"} :
         /\ Len(ns["tokenized_dataset"][sp]) = Len(ns["dataset"][sp])
         /\ \A i \in 1..Len(ns["dataset"][sp]) :
              BoundedTokens(ns["tokenized_dataset"][sp][i], ns["dataset"][sp][i]["sms"], ModelMaxLength)
  /\ (script = "modernbert" /\ IsBound(ns, "split_dataset")) =>
       \A sp \in {"train", "test"} : \A i \in 1..Len(ns["split_dataset"][sp]) :
         LET text == ns["split_dataset"][sp][i]["text"]
         IN BoundedTokens(tokenize_function(text), text, MaxLength)

\* C5's case: the hints notebook has tokenized a dataset with a text longer
\* than the limit, and the stored row is cut to the limit.
C5_Witness ==
  /\ script = "hints"
  /\ WasExecuted("H_Tokenize")
  /\ IsBound(ns, "dataset")
  /\ \E i \in 1..Len(ns["dataset"].train) :
       /\ Len(ns["dataset"].train[i]["sms"]) + 2 > ModelMaxLength
       /\ Len(ns["tokenized_dataset"].train[i]["input_ids"]) = ModelMaxLength

\* The value is a Trainer that was given the padding data collator.
PaddingTrainer(v) == v.kind = "Trainer" /\ v.data_collator = "DataCollatorWithPadding"

\* C6: the tokenization stores no padded sequence; every Trainer of either
\* script is given the padding data collator: the one of the baseline
\* evaluation, the one that trains and evaluates after training, and the
\* one that evaluates the loaded model.
C6_EveryTrainerPads ==
  /\ \A i \in 1..Len(trainerCalls) : trainerCalls[i].data_collator = "DataCollatorWithPadding"
  /\ (script = "hints" /\ WasExecuted("H_PreEval")) => PaddingTrainer(ns["trainer"])

\* The adapter weights saved at the path, a set of at most one element.
SavedAt(path) == {d.weights : d \in {e \in disk : e.path = path /\ e.what = "adapter"}}

\* C7: once the cell that loads the adapter has run, the save has completed
\* before it, and the loaded model has exactly the adapter weights saved at
\* the path the load names.
C7_LoadAfterSaveRoundTrip ==
  /\ (script = "hints" /\ WasExecuted("H_Load")) =>
       /\ Before(executed, "H_Save", "H_Load")
       /\ "save" \in Range(steps)
       /\ ns["lora_model"].kind \in {"Model", "PeftModel"}
       /\ ns["lora_model"].adapter_weights \in UNION {SavedAt(d.path) : d \in disk}
  /\ (script = "modernbert" /\ WasExecuted("M_Load")) =>
       /\ Before(executed, "M_Save", "M_Load")
       /\ "save" \in Range(steps)
       /\ "load_adapter" \in Range(steps)
       /\ ns["model"].adapter_weights \in SavedAt(FinalModelPath)

\* The class predicted for example i of the predictions handed over: the
\* class of the larger of the two logits, class 0 when they are equal.
PredictedClass(i) == IF eval_pred.predictions[i][2] > eval_pred.predictions[i][1] THEN 1 ELSE 0

Examples == 1..Len(eval_pred.label_ids)

\* The examples whose predicted class is their label.
Correct == {i \in Examples : PredictedClass(i) = eval_pred.label_ids[i]}

\* C8: compute_metrics of the hints notebook returns as 'accuracy' the
\* number of examples whose argmax class equals the label, divided by the
\* number of examples.
C8_HintsAccuracy ==
  metricsOf = "hints" =>
    /\ metrics.accuracy.kind = "float"
    /\ FloatEq(metrics.accuracy, Float(Cardinality(Correct), Cardinality(Examples)))

\* C9: compute_metrics of the ModernBERT script returns as 'accuracy' the
\* number of examples whose argmax class equals the label, divided by the
\* number of examples, where the class of two equal logits is 0.
C9_ModernbertAccuracy ==
  metricsOf = "modernbert" =>
    /\ metrics.accuracy.kind = "float"
    /\ metrics.accuracy.den = Cardinality(Examples)
    /\ metrics.accuracy.num = Cardinality(Correct)

\* C9's case: compute_metrics has returned for predictions with an example
\* of two equal logits and label 0, which counts as correct.
C9_Witness ==
  /\ metricsOf = "modernbert"
  /\ \E i \in Examples :
       /\ eval_pred.predictions[i][1] = eval_pred.predictions[i][2]
       /\ eval_pred.label_ids[i] = 0
       /\ i \in Correct

\* Per class c, over the examples handed over: precision, recall and F1,
\* each 0 when its denominator is 0.
Predicted(c) == {i \in Examples : PredictedClass(i) = c}

Labelled(c) == {i \in Examples : eval_pred.label_ids[i] = c}

ClassPrecision(c) == Ratio(Cardinality(Predicted(c) \cap Labelled(c)), Cardinality(Predicted(c)))

ClassRecall(c) == Ratio(Cardinality(Predicted(c) \cap Labelled(c)), Cardinality(Labelled(c)))

ClassF1(c) == Ratio(2 * Cardinality(Predicted(c) \cap Labelled(c)), Cardinality(Predicted(c)) + Cardinality(Labelled(c)))

ClassValue(which, c) ==
  IF which = "precision" THEN ClassPrecision(c) ELSE IF which = "recall" THEN ClassRecall(c) ELSE ClassF1(c)

\* The unweighted mean of the per-class value over the classes C.
ClassMean(C, which) == LET cs == Sorted(C) IN FloatMean([k \in 1..Len(cs) |-> ClassValue(which, cs[k])])

InUnitInterval(x) == x.den > 0 /\ 0 <= x.num /\ x.num <= x.den

\* The three macro values are the means over the classes C, each in [0, 1].
MacroOver(C) ==
  /\ FloatEq(metrics.macro_precision, ClassMean(C, "precision"))
  /\ FloatEq(metrics.macro_recall, ClassMean(C, "recall"))
  /\ FloatEq(metrics.macro_f1, ClassMean(C, "f1"))
  /\ InUnitInterval(metrics.macro_precision)
  /\ InUnitInterval(metrics.macro_recall)
  /\ InUnitInterval(metrics.macro_f1)

\* The classes that occur among the labels or the predicted classes.
OccurringClasses == {c \in 0..(NumLabels - 1) : Predicted(c) \cup Labelled(c) # {}}

\* C10, as claimed: macro_precision, macro_recall and macro_f1 are the
\* unweighted means over the two classes of the per-class precision, recall
\* and F1, a per-class value with denominator zero counting as 0, and each
\* lies between 0 and 1.
C10_MacroOverBothClasses == metricsOf = "modernbert" => MacroOver(0..(NumLabels - 1))

\* C10, amended: the means are over the classes that occur among the labels
\* or the predictions; a class that occurs in neither is left out of the
\* mean, not counted as 0.
C10_MacroOverOccurringClasses == metricsOf = "modernbert" => MacroOver(OccurringClasses)

\* C10's case: compute_metrics has returned for predictions where a class
\* occurs among the labels and is never predicted, so its precision has
\* denominator zero and counts as 0.
C10_Witness ==
  /\ metricsOf = "modernbert"
  /\ \E c \in OccurringClasses : Predicted(c) = {} /\ Labelled(c) # {}
  /\ metrics.macro_precision.num * 2 < metrics.macro_precision.den

\* The last name of a module path.
LastName(module) == module[Len(module)]

\* The parameters the claim lets training change: the adapters injected
\* into the Wqkv, Wi and Wo modules, and the saved copies of the classifier
\* and of the final norm.
AdapterAndSavedParams ==
  {Param("lora", m) : m \in {x \in ModernBertModules : LastName(x) \in {"Wqkv", "Wi", "Wo"}}}
  \cup {Param("modules_to_save", <<"classifier">>), Param("modules_to_save", <<"model", "final_norm">>)}

\* C11: at every point of train() in the ModernBERT script, the trainable
\* parameters of the adapted model are exactly the injected adapter
\* parameters and the saved copies of the classifier and final norm, a
\* strict subset of all parameters, and every other parameter still has
\* its pretrained value.
C11_TrainingUpdatesOnlyAdapter ==
  \A r \in DOMAIN training :
    LET m == training[r].trainer.model
        pretrained == PretrainedModel("modernbert").parameters
    IN /\ m.requires_grad = AdapterAndSavedParams
       /\ m.requires_grad \subseteq DOMAIN m.parameters
       /\ m.requires_grad # DOMAIN m.parameters
       /\ DOMAIN pretrained \subseteq DOMAIN m.parameters
       /\ \A p \in DOMAIN m.parameters \ m.requires_grad : p \in DOMAIN pretrained /\ m.parameters[p] = pretrained[p]

\* train() has ended after steps that changed every trainable parameter's
\* value at some point.
C11_Witness ==
  \E r \in DOMAIN training :
    /\ training[r].finished
    /\ training[r].global_step > 0
    /\ \A p \in training[r].trainer.model.requires_grad : training[r].trainer.model.parameters[p] > 0

\* C12: nothing but model weights and tokenizer configuration is ever
\* written to disk, and when a run of the ModernBERT script is over both
\* the model weights and the tokenizer configuration are at the final
\* model path.
C12_WeightsAndTokenizerAtFinalPath ==
  /\ \A d \in disk : d.what \in {"adapter", "tokenizer"}
  /\ (Finished /\ script = "modernbert") =>
       /\ \E d \in disk : d.path = FinalModelPath /\ d.what = "adapter"
       /\ \E d \in disk : d.path = FinalModelPath /\ d.what = "tokenizer"

\* The columns of the rows of the split dataset.
SplitColumns == UNION {DOMAIN row : row \in Range(ns["split_dataset"].train) \cup Range(ns["split_dataset"].test)}

RaisedIn(cell, excs) == \E e \in Range(errors) : e.cell = cell /\ e.exc \in excs

\* C14: in the ModernBERT script, once the tokenization cell has run, the
\* column it tokenizes and every column it names for removal are columns of
\* the split dataset and the cell has raised no error about a column; once
\* the error analysis has run, the column it reads the original text from
\* is a column of the split dataset, the one that was tokenized, and the
\* cell has raised no error about a column.
C14_ColumnsExistWhereUsed ==
  (script = "modernbert" /\ IsBound(ns, "split_dataset")) =>
    /\ WasExecuted("M_TokenizeAndBaseline") =>
         /\ TokenizedColumn \in SplitColumns
         /\ RemoveColumns \subseteq SplitColumns
         /\ ~RaisedIn("M_TokenizeAndBaseline", {"ValueError", "KeyError"})
    /\ WasExecuted("M_ErrorAnalysis") =>
         /\ ErrorAnalysisColumn \in SplitColumns
         /\ ErrorAnalysisColumn = TokenizedColumn
         /\ ~RaisedIn("M_ErrorAnalysis", {"KeyError"})

\* The lowest eval_loss among the first k evaluations of the history.
LowestLoss(h, k) == CHOOSE v \in {h[j].eval_loss : j \in 1..k} : \A j \in 1..k : v <= h[j].eval_loss

\* The k-th evaluation did not lower eval_loss by more than the threshold
\* below the best eval_loss seen before it.
FailedToImprove(h, k) == k > 1 /\ ~(LowestLoss(h, k - 1) - h[k].eval_loss > EarlyStoppingThreshold)

\* How many evaluations at the end of the history failed in a row.
ConsecutiveFailures(h) ==
  CHOOSE c \in 0..Len(h) :
    /\ \A k \in (Len(h) - c + 1)..Len(h) : FailedToImprove(h, k)
    /\ c < Len(h) => ~FailedToImprove(h, Len(h) - c)

\* The steps of 8 epochs over n rows in batches of 32.
EpochLimit(n) == NumTrainEpochs * ((n + TrainBatchSize - 1) \div TrainBatchSize)

\* What C15 says of every point of train().
TrainingStopsAsClaimed ==
  \A r \in DOMAIN training :
    LET run == training[r]
        h == run.log_history
        limit == EpochLimit(run.trainer.train_dataset.num_rows)
    IN /\ run.global_step <= limit
       /\ Len(h) = run.global_step \div EvalSteps
       /\ \A k \in 1..Len(h) : h[k].step = EvalSteps * k
       /\ run.early_stopping_patience_counter = ConsecutiveFailures(h)
       /\ run.should_training_stop <=>
            \/ run.global_step = limit
            \/ run.global_step > 0 /\ run.global_step % EvalSteps = 0 /\ ConsecutiveFailures(h) >= EarlyStoppingPatience
       /\ run.finished => run.should_training_stop
       /\ ConsecutiveFailures(h) >= EarlyStoppingPatience => run.should_training_stop

AllFinished == \A r \in DOMAIN training : training[r].finished

\* C15: in the ModernBERT script train() always ends; it never goes past
\* the steps of 8 epochs, evaluates every 50 steps, counts the evaluations
\* in a row that failed to lower eval_loss by more than 0.001 below the best
\* eval_loss seen before (an evaluation that does resets the count to zero),
\* and leaves the loop exactly when the epoch limit is reached or the count
\* reaches 3.
C15_TrainingTerminates == []TrainingStopsAsClaimed /\ <>AllFinished

\* train() has ended before the epoch limit, after an evaluation that reset
\* the count and three that failed in a row.
C15_Witness ==
  \E r \in DOMAIN training :
    LET run == training[r]
        h == run.log_history
    IN /\ run.finished
       /\ run.global_step < EpochLimit(run.trainer.train_dataset.num_rows)
       /\ ConsecutiveFailures(h) = EarlyStoppingPatience
       /\ \E k \in 2..Len(h) : ~FailedToImprove(h, k)

\* The adapter parameters of the model are those stored in the checkpoint.
HasWeightsOf(model, checkpoint) ==
  \A p \in DOMAIN checkpoint.parameters : p \in DOMAIN model.parameters /\ model.parameters[p] = checkpoint.parameters[p]

\* C16: every evaluation point of train() is also a checkpoint point (every
\* 50 steps in the ModernBERT script, every epoch in the hints notebook's
\* arguments), and when train() has ended the model held by the trainer has
\* the weights of a checkpoint whose eval_loss is the lowest among all
\* evaluations performed.
C16_BestCheckpointLoaded ==
  /\ ModernbertTrainingArguments.eval_strategy = "steps"
  /\ ModernbertTrainingArguments.save_strategy = "steps"
  /\ ModernbertTrainingArguments.eval_steps = 50
  /\ ModernbertTrainingArguments.save_steps = 50
  /\ HintsTrainingArguments.eval_strategy = "epoch"
  /\ HintsTrainingArguments.save_strategy = "epoch"
  /\ \A r \in DOMAIN training :
       LET run == training[r]
           h == run.log_history
       IN /\ \A k \in 1..Len(h) : \E c \in run.checkpoints : c.step = h[k].step
          /\ (run.finished /\ Len(h) > 0) =>
               \E k \in 1..Len(h) : \E c \in run.checkpoints :
                 /\ h[k].eval_loss = LowestLoss(h, Len(h))
                 /\ c.step = h[k].step
                 /\ HasWeightsOf(run.trainer.model, c)

\* train() has ended with the weights of a checkpoint taken before the
\* last evaluation, which are not the weights of the last training step.
C16_Witness ==
  \E r \in DOMAIN training :
    LET run == training[r]
        h == run.log_history
    IN /\ run.finished
       /\ Len(h) > 1
       /\ run.best_model_checkpoint < h[Len(h)].step
       /\ \A p \in run.trainer.model.requires_grad : run.trainer.model.parameters[p] < run.global_step

\* How often the record occurs among the rows.
Occurrences(rows, record) == Cardinality({i \in 1..Len(rows) : rows[i] = record})

\* The Trainer objects the run has bound.
BoundTrainers == {ns[name] : name \in {n \in {"trainer", "loaded_trainer"} : ns[n].kind = "Trainer"}}

C19_ErrorAnalysisOnEvaluatedModel ==
  (script = "modernbert" /\ WasExecuted("M_ErrorAnalysis")) =>
    /\ IsBound(ns, "test_output")
    /\ \E i \in 1..Len(evals) :
         /\ evals[i].phase = "post"
         /\ evals[i].rows = ns["test_output"].rows
         /\ evals[i].weights = ns["test_output"].weights
         /\ evals[i].adapter_weights = ns["test_output"].adapter_weights

====
